---- MODULE Spec2Model ----
(***************************************************************************)
(* A model of rafft-rs: the nucleotide encoding (src/src/encoding.rs:      *)
(* EncodedSequence, PairTable) and the fold entry point and lag ranking    *)
(* (src/src/fast_folding.rs).                                              *)
(*                                                                         *)
(* Conventions.  A Rust array is a function over 0..n-1, so indices are    *)
(* the source's 0-based indices.  A 4xN ndarray matrix is a function from  *)
(* the column index 0..N-1 to the column, itself a function over the       *)
(* channels 0..3.  f64 weights and scores are integers (the modelled       *)
(* weights are the integral defaults).  Option<usize> is a set: {} is      *)
(* None and {x} is Some(x).  A call's outcome is a record with a tag:      *)
(* "Ok"/"Err" for a Result, "Ok"/"Panic" for a function that may panic,    *)
(* "None" while the function has not been called.                          *)
(***************************************************************************)
EXTENDS Integers, Sequences, FiniteSets, TLC

\* ------------------------------------------------------------------ bounds

\* longest input string
MaxLen == 4
\* longest PairTable
MaxLength == 4
\* longest score vector that is ranked, and the largest score in it
MaxLags == 4
MaxScore == 2

\* ------------------------------------------------------------------ inputs

\* the four nucleotides the encoder accepts
Nucleotides == {"A", "C", "G", "U"}

\* characters of the input strings: the nucleotides, a lowercase one and
\* another letter (all one byte long, so str::len() is the number of chars)
Chars == Nucleotides \cup {"a", "N"}

\* strings of at most n characters
RECURSIVE StringsUpTo(_)
StringsUpTo(n) ==
    IF n = 0 THEN {<<>>}
    ELSE LET shorter == StringsUpTo(n - 1)
         IN  shorter \cup {Append(s, c) : s \in {t \in shorter : Len(t) = n - 1}, c \in Chars}

Strings == StringsUpTo(MaxLen)

\* RafftConfig::default().basepair_weights
DefaultWeights == [AU |-> 2, GC |-> 3, GU |-> 1]

\* the weights EncodedSequence::new encodes with
EqualWeights == [AU |-> 1, GC |-> 1, GU |-> 1]

WeightChoices == {DefaultWeights, EqualWeights}

\* ----------------------------------------------------------------- helpers

\* a Rust array (0-indexed) from a tuple
Arr(t) == [i \in 0..(Len(t) - 1) |-> t[i + 1]]

\* number of elements of a 0-indexed array
ALen(a) == Cardinality(DOMAIN a)

\* the half-open range a..b as the sequence of its elements
RECURSIVE Range(_, _)
Range(a, b) == IF a >= b THEN <<>> ELSE <<a>> \o Range(a + 1, b)

None == {}
Some(x) == {x}

\* ---------------------------------------------------------------- alphabet

\* Alphabet with the G arm writing the column of C
Alphabet_G_as_C(c) ==
    CASE c = "A" -> Arr(<<1, 0, 0, 0>>)
      [] c = "C" -> Arr(<<0, 1, 0, 0>>)
      [] c = "G" -> Arr(<<0, 1, 0, 0>>)
      [] c = "U" -> Arr(<<0, 0, 0, 1>>)

\* mod Alphabet: the one-hot column of a nucleotide
Alphabet(c) ==
    CASE c = "A" -> Arr(<<1, 0, 0, 0>>)
      [] c = "C" -> Arr(<<0, 1, 0, 0>>)
      [] c = "G" -> Arr(<<0, 0, 1, 0>>)
      [] c = "U" -> Arr(<<0, 0, 0, 1>>)

\* MirrorAlphabet::new(weights): the weighted column of the nucleotides c pairs with
MirrorAlphabet(weights, c) ==
    CASE c = "A" -> Arr(<<0, 0, 0, weights.AU>>)
      [] c = "C" -> Arr(<<0, 0, weights.GC, 0>>)
      [] c = "G" -> Arr(<<0, weights.GC, 0, weights.GU>>)
      [] c = "U" -> Arr(<<weights.AU, 0, weights.GU, 0>>)

\* Array2::default((4, length)): all zeros
ZeroMatrix(length) == [i \in 0..(length - 1) |-> Arr(<<0, 0, 0, 0>>)]

\* ---------------------------------------------------------------- encoding

\* try_for_each as a for_each that goes on after an error and reports the last one
RECURSIVE for_each_last_error(_, _, _, _, _)
for_each_last_error(sequence, weights, i, forward, mirrored) ==
    IF i >= Len(sequence)
    THEN [tag |-> "Ok", forward |-> forward, mirrored |-> mirrored]
    ELSE LET c == sequence[i + 1]
         IN  IF c \in Nucleotides
             THEN for_each_last_error(sequence, weights, i + 1,
                                      [forward EXCEPT ![i] = Alphabet(c)],
                                      [mirrored EXCEPT ![i] = MirrorAlphabet(weights, c)])
             ELSE LET rest == for_each_last_error(sequence, weights, i + 1, forward, mirrored)
                  IN  IF rest.tag = "Err" THEN rest
                      ELSE [tag |-> "Err", err |-> [InvalidNucleotide |-> c]]

\* the try_for_each over sequence.chars().enumerate(), from index i on: each
\* accepted character writes column i of both matrices, the first other
\* character ends the loop with Err(InvalidNucleotide(c))
RECURSIVE try_for_each(_, _, _, _, _)
try_for_each(sequence, weights, i, forward, mirrored) ==
    IF i >= Len(sequence)
    THEN [tag |-> "Ok", forward |-> forward, mirrored |-> mirrored]
    ELSE LET c == sequence[i + 1]
         IN  IF c \in Nucleotides
             THEN try_for_each(sequence, weights, i + 1,
                               [forward EXCEPT ![i] = Alphabet(c)],
                               [mirrored EXCEPT ![i] = MirrorAlphabet(weights, c)])
             ELSE [tag |-> "Err", err |-> [InvalidNucleotide |-> c]]

\* with_basepair_weights with the mirrored matrix reversed end to end before it is stored
with_basepair_weights_reversed(sequence, weights) ==
    LET length == Len(sequence)
        done == try_for_each(sequence, weights, 0, ZeroMatrix(length), ZeroMatrix(length))
    IN  IF done.tag = "Err"
        THEN [tag |-> "Err", err |-> done.err]
        ELSE [tag |-> "Ok",
              val |-> [forward |-> done.forward,
                       mirrored |-> [k \in 0..(length - 1) |-> done.mirrored[length - 1 - k]],
                       concatenation_site |-> None]]

\* EncodedSequence::with_basepair_weights
with_basepair_weights(sequence, weights) ==
    LET length == Len(sequence)
        done == try_for_each(sequence, weights, 0, ZeroMatrix(length), ZeroMatrix(length))
    IN  IF done.tag = "Err"
        THEN [tag |-> "Err", err |-> done.err]
        ELSE [tag |-> "Ok",
              val |-> [forward |-> done.forward,
                       mirrored |-> done.mirrored,
                       concatenation_site |-> None]]

\* EncodedSequence::len
len(self) == ALen(self.forward)

\* ------------------------------------------------------------- subsequence

\* ArrayBase::slice(s![.., start..end]): the columns start..end
slice(matrix, start, end) == [k \in 0..(end - start - 1) |-> matrix[start + k]]

\* the slice of the mirrored columns taken without the step -1
slice_in_order(matrix, start, end) == [k \in 0..(end - start - 1) |-> matrix[start + k]]

\* ArrayBase::slice(s![.., start..end;-1]): the same columns, last one first
slice_reversed(matrix, start, end) == [k \in 0..(end - start - 1) |-> matrix[end - 1 - k]]

\* ArrayBase::select(Axis(1), &indices): the columns the indices name, in their order
select(matrix, indices) == [k \in 0..(Len(indices) - 1) |-> matrix[indices[k + 1]]]

\* subsequence taking the contiguous branch when start == end too
subsequence_empty_when_equal(self, start, end) ==
    IF start <= end
    THEN IF end > len(self)
         THEN [tag |-> "Panic"]
         ELSE [tag |-> "Ok",
               val |-> [forward |-> slice(self.forward, start, end),
                        mirrored |-> slice(self.mirrored, start, end),
                        concatenation_site |-> None]]
    ELSE LET indices == Range(start, len(self)) \o Range(0, end)
         IN  IF \E k \in 1..Len(indices) : indices[k] >= len(self)
             THEN [tag |-> "Panic"]
             ELSE [tag |-> "Ok",
                   val |-> [forward |-> select(self.forward, indices),
                            mirrored |-> select(self.mirrored, indices),
                            concatenation_site |-> Some(start)]]

\* EncodedSequence::subsequence.  Slicing beyond the last column and selecting
\* a column that does not exist both panic in ndarray.
subsequence(self, start, end) ==
    IF start < end
    THEN IF end > len(self)
         THEN [tag |-> "Panic"]
         ELSE [tag |-> "Ok",
               val |-> [forward |-> slice(self.forward, start, end),
                        mirrored |-> slice(self.mirrored, start, end),
                        concatenation_site |-> None]]
    ELSE LET indices == Range(start, len(self)) \o Range(0, end)
         IN  IF \E k \in 1..Len(indices) : indices[k] >= len(self)
             THEN [tag |-> "Panic"]
             ELSE [tag |-> "Ok",
                   val |-> [forward |-> select(self.forward, indices),
                            mirrored |-> select(self.mirrored, indices),
                            concatenation_site |-> Some(start)]]

\* ------------------------------------------------------------------- split

\* the split of a fragment around a run of bp pairs whose first paired
\* positions are mi and mj (tests::test_folding): the outer fragment
\* subsequence(mj + bp, mi - bp), then the inner fragment subsequence(mi + 1, mj).
\* mi - bp is a usize subtraction: below zero it panics in a debug build and
\* wraps in a release build, where the end of the range then lies beyond the
\* last column and the slice panics; a panic in either build.
split(self, bp, mi, mj) ==
    IF mi < bp THEN [tag |-> "Panic"]
    ELSE LET outer == subsequence(self, mj + bp, mi - bp)
         IN  IF outer.tag = "Panic" THEN [tag |-> "Panic"]
             ELSE LET inner == subsequence(self, mi + 1, mj)
                  IN  IF inner.tag = "Panic" THEN [tag |-> "Panic"]
                      ELSE [tag |-> "Ok", outer |-> outer.val, inner |-> inner.val]

\* ------------------------------------------------- consecutive_pairs_at_lag

\* (fwd * mrrd).sum_axis(Axis(0)) at column k: the product summed over the channels
column_product(fwd_column, mrrd_column) ==
    fwd_column[0] * mrrd_column[0] + fwd_column[1] * mrrd_column[1]
        + fwd_column[2] * mrrd_column[2] + fwd_column[3] * mrrd_column[3]

\* accumulate_axis_inplace(Axis(0), |&prev, curr| *curr *= prev + *curr): element k
\* after the pass.  The closure is applied to consecutive pairs, so the first
\* element is left as it is.
RECURSIVE accumulated_at(_, _)
accumulated_at(scores, k) ==
    IF k = 0 THEN scores[0]
    ELSE scores[k] * (accumulated_at(scores, k - 1) + scores[k])

accumulate_axis_inplace(scores) == [k \in DOMAIN scores |-> accumulated_at(scores, k)]

\* EncodedSequence::consecutive_pairs_at_lag.  A slice that begins beyond the last
\* column panics in ndarray; whatever the scores are, the value returned is
\* (0, 0, 0, 0).  The scores are the function's locals, which it prints.
consecutive_pairs_at_lag(self, positional_lag) ==
    LET begin == IF positional_lag < len(self) THEN 0 ELSE positional_lag - len(self) + 1
        stop == IF positional_lag < len(self) THEN positional_lag + 1 ELSE len(self)
    IN  IF begin > len(self)
        THEN [tag |-> "Panic"]
        ELSE LET fwd_slice == slice(self.forward, begin, stop)
                 mrrd_slice == slice_reversed(self.mirrored, begin, stop)
                 halved_length == (ALen(fwd_slice) \div 2) + (ALen(fwd_slice) % 2)
                 total_pairing_scores ==
                     [k \in 0..(halved_length - 1) |-> column_product(fwd_slice[k], mrrd_slice[k])]
             IN  [tag |-> "Ok",
                  val |-> <<0, 0, 0, 0>>,
                  total_pairing_scores |-> total_pairing_scores,
                  accumulated |-> accumulate_axis_inplace(total_pairing_scores)]

\* --------------------------------------------------------------- PairTable

\* PairTable::new: length + 1 slots, slot 0 holds the length (as i16: the
\* conversion panics above 32767, beyond the lengths modelled)
PairTable_new(length) == [i \in 0..length |-> IF i = 0 THEN length ELSE 0]

\* PairTable::len
PairTable_len(self) == self[0]

\* PairTable::unpaired: the indices of the slots that hold 0, over every slot
\* of the inner array (indexed_iter, nothing skipped), in index order
unpaired(self) ==
    SelectSeq(Range(0, PairTable_len(self) + 1), LAMBDA i : self[i] = 0)

\* PairTable::paired: the pairs (i, slot i) with i < slot i, over the slots
\* after slot 0 (skip(1)), in index order
paired(self) ==
    LET later == SelectSeq(Range(1, PairTable_len(self) + 1), LAMBDA i : i < self[i])
    IN  [k \in 1..Len(later) |-> <<later[k], self[later[k]]>>]

\* insert without the assertion that slot j is free
insert_unchecked_partner(self, i, j) ==
    IF ~(0 < i /\ i <= PairTable_len(self)) THEN [tag |-> "Panic", table |-> self]
    ELSE IF ~(0 < j /\ j <= PairTable_len(self)) THEN [tag |-> "Panic", table |-> self]
    ELSE IF i = j THEN [tag |-> "Panic", table |-> self]
    ELSE IF self[i] # 0 THEN [tag |-> "Panic", table |-> self]
    ELSE [tag |-> "Ok", table |-> [self EXCEPT ![i] = j, ![j] = i]]

\* insert with the first write ahead of the assertions on the slots
insert_write_before_check(self, i, j) ==
    IF ~(0 < i /\ i <= PairTable_len(self)) THEN [tag |-> "Panic", table |-> self]
    ELSE IF ~(0 < j /\ j <= PairTable_len(self)) THEN [tag |-> "Panic", table |-> self]
    ELSE IF i = j THEN [tag |-> "Panic", table |-> self]
    ELSE IF self[i] # 0 THEN [tag |-> "Panic", table |-> self]
    ELSE IF self[j] # 0 THEN [tag |-> "Panic", table |-> [self EXCEPT ![i] = j]]
    ELSE [tag |-> "Ok", table |-> [self EXCEPT ![i] = j, ![j] = i]]

\* PairTable::insert: the five assertions in the source's order, then the two
\* writes; a failed assertion panics before anything is written
insert(self, i, j) ==
    IF ~(0 < i /\ i <= PairTable_len(self)) THEN [tag |-> "Panic", table |-> self]
    ELSE IF ~(0 < j /\ j <= PairTable_len(self)) THEN [tag |-> "Panic", table |-> self]
    ELSE IF i = j THEN [tag |-> "Panic", table |-> self]
    ELSE IF self[i] # 0 THEN [tag |-> "Panic", table |-> self]
    ELSE IF self[j] # 0 THEN [tag |-> "Panic", table |-> self]
    ELSE [tag |-> "Ok", table |-> [self EXCEPT ![i] = j, ![j] = i]]

\* -------------------------------------------------------------------- fold

\* RafftConfig::fold.  VCompound::new is a call into ViennaRNA and RafftGraph
\* is built from the encoded sequence: of both, the model keeps only whether
\* the graph was built and its nodes printed.  Result::expect panics with its
\* message and the error's Debug text.
fold(basepair_weights, sequence) ==
    LET encoded == with_basepair_weights(sequence, basepair_weights)
    IN  IF encoded.tag = "Err"
        THEN [tag |-> "Panic",
              message |-> <<"Not a valid RNA Sequence!", encoded.err>>,
              ffgraph |-> None,
              printed |-> FALSE]
        ELSE [tag |-> "Ok", ffgraph |-> Some(encoded.val), printed |-> TRUE]

\* ----------------------------------------------------------------- ranking

\* corr.iter().enumerate().collect(): the (lag, score) pairs in lag order
enumerate(scores) == [k \in DOMAIN scores |-> <<k, scores[k]>>]

\* one element put into an ascending array behind every element that is not
\* greater than it: elements that compare equal keep their order
RECURSIVE insert_sorted(_, _, _)
insert_sorted(sorted, x, at) ==
    IF at > 0 /\ sorted[at - 1][2] > x[2]
    THEN insert_sorted(sorted, x, at - 1)
    ELSE [k \in 0..ALen(sorted) |->
              IF k < at THEN sorted[k] ELSE IF k = at THEN x ELSE sorted[k - 1]]

\* slice::sort_by(|a, b| a.1.partial_cmp(b.1).unwrap()): a stable sort, ascending
\* by score, of the first n elements
RECURSIVE sort_by_score(_, _)
sort_by_score(v, n) ==
    IF n = 0 THEN [k \in {} |-> 0]
    ELSE LET sorted == sort_by_score(v, n - 1)
         IN  insert_sorted(sorted, v[n - 1], n - 1)

\* slice::reverse
reverse(v) == [k \in DOMAIN v |-> v[ALen(v) - 1 - k]]

\* the ranking of the lags of tests::test_folding: enumerate, sort_by, reverse
rank_lags(scores) ==
    LET corr == enumerate(scores)
    IN  reverse(sort_by_score(corr, ALen(corr)))

\* ------------------------------------------------------------------- state

VARIABLES
    sequence,   \* the string given to with_basepair_weights, or to fold
    weights,    \* the BasePairWeights given with it, or the configuration's
    encoded,    \* what with_basepair_weights returned
    sub,        \* the last subsequence call on encoded: its arguments and outcome
    pairs,      \* the last consecutive_pairs_at_lag call on encoded: its lag and outcome
    children,   \* the last split of encoded: the run it was split around and the outcome
    folded,     \* the outcome of fold
    table,      \* a PairTable
    inserted,   \* the last insert call on it: its arguments and outcome
    listed,     \* what unpaired() and paired() yield on it, since the last insert
    scores,     \* the per-lag scores of a fragment
    corr        \* their ranking

vars == <<sequence, weights, encoded, sub, pairs, children, folded,
          table, inserted, listed, scores, corr>>

encodingVars == <<sequence, weights, encoded, sub, pairs, children, folded>>
pairTableVars == <<table, inserted, listed>>
rankingVars == <<scores, corr>>

NotCalled == [tag |-> "None"]

\* arguments of subsequence: every position of the longest string, and one beyond
Positions == 0..(MaxLen + 1)

\* lags: every lag of the longest string's window range 0..2N-2, and three beyond
Lags == 0..(2 * MaxLen + 1)

\* the runs a fragment is split around: every length, zero too, of a run of the
\* longest string
RunLengths == 0..MaxLen

\* arguments of insert: every position of the longest table, and one beyond each end
InsertArguments == (-1)..(MaxLength + 1)

\* score vectors
ScoreVectors ==
    UNION {[0..(n - 1) -> 0..MaxScore] : n \in 0..MaxLags}

\* the parts of the state a specification does not use
EncodingUnused ==
    /\ sequence = <<>>
    /\ weights = DefaultWeights
    /\ encoded = NotCalled
    /\ sub = NotCalled
    /\ pairs = NotCalled
    /\ children = NotCalled
    /\ folded = NotCalled

PairTableUnused ==
    /\ table = PairTable_new(0)
    /\ inserted = NotCalled
    /\ listed = NotCalled

RankingUnused ==
    /\ scores = <<>>
    /\ corr = NotCalled

\* ---------------------------------------------------- the encoded sequence

\* before the call: the arguments are chosen, nothing has been called
InitEncoding ==
    /\ sequence \in Strings
    /\ weights \in WeightChoices
    /\ encoded = NotCalled
    /\ sub = NotCalled
    /\ pairs = NotCalled
    /\ children = NotCalled
    /\ folded = NotCalled
    /\ PairTableUnused
    /\ RankingUnused

\* the call of EncodedSequence::with_basepair_weights on the arguments
Encode ==
    /\ encoded.tag = "None"
    /\ encoded' = with_basepair_weights(sequence, weights)
    /\ UNCHANGED <<sequence, weights, sub, pairs, children, folded>>
    /\ UNCHANGED <<pairTableVars, rankingVars>>

\* subsequence, consecutive_pairs_at_lag and the split take &self: they leave the
\* encoded sequence as it is, so the outcome of a call does not depend on the
\* calls made before it.  The state holds one call and its outcome.
NoCallYet == sub.tag = "None" /\ pairs.tag = "None" /\ children.tag = "None"

\* a call of subsequence on the encoded sequence
Subsequence(start, end) ==
    /\ encoded.tag = "Ok"
    /\ NoCallYet
    /\ sub' = [start |-> start, end |-> end] @@ subsequence(encoded.val, start, end)
    /\ UNCHANGED <<sequence, weights, encoded, pairs, children, folded>>
    /\ UNCHANGED <<pairTableVars, rankingVars>>

\* a call of consecutive_pairs_at_lag on the encoded sequence
ConsecutivePairsAtLag(positional_lag) ==
    /\ encoded.tag = "Ok"
    /\ NoCallYet
    /\ pairs' = [positional_lag |-> positional_lag]
                    @@ consecutive_pairs_at_lag(encoded.val, positional_lag)
    /\ UNCHANGED <<sequence, weights, encoded, sub, children, folded>>
    /\ UNCHANGED <<pairTableVars, rankingVars>>

\* a split of the encoded sequence around a run of bp pairs at mi and mj
Split(bp, mi, mj) ==
    /\ encoded.tag = "Ok"
    /\ NoCallYet
    /\ children' = [bp |-> bp, mi |-> mi, mj |-> mj] @@ split(encoded.val, bp, mi, mj)
    /\ UNCHANGED <<sequence, weights, encoded, sub, pairs, folded>>
    /\ UNCHANGED <<pairTableVars, rankingVars>>

NextEncoding ==
    \/ Encode
    \/ \E start \in Positions, end \in Positions : Subsequence(start, end)
    \/ \E positional_lag \in Lags : ConsecutivePairsAtLag(positional_lag)
    \/ \E bp \in RunLengths, mi \in Positions, mj \in Positions : Split(bp, mi, mj)

SpecEncoding == InitEncoding /\ [][NextEncoding]_vars

\* -------------------------------------------------------------------- fold

\* the call of RafftConfig::fold on the string, with the configuration's weights
Fold ==
    /\ folded.tag = "None"
    /\ folded' = fold(weights, sequence)
    /\ UNCHANGED <<sequence, weights, encoded, sub, pairs, children>>
    /\ UNCHANGED <<pairTableVars, rankingVars>>

NextFold == Fold

SpecFold == InitEncoding /\ [][NextFold]_vars

\* --------------------------------------------------------------- PairTable

\* after PairTable::new(length)
InitPairTable ==
    /\ table \in {PairTable_new(length) : length \in 0..MaxLength}
    /\ inserted = NotCalled
    /\ listed = NotCalled
    /\ EncodingUnused
    /\ RankingUnused

\* a call of insert; the iterators of unpaired() and paired() borrow the table,
\* so none is alive when insert is called
Insert(i, j) ==
    /\ LET done == insert(table, i, j)
       IN  /\ table' = done.table
           /\ inserted' = [i |-> i, j |-> j, tag |-> done.tag]
    /\ listed' = NotCalled
    /\ UNCHANGED <<encodingVars, rankingVars>>

\* the iterators of unpaired() and paired() are run to their ends
ListPositions ==
    /\ listed' = [tag |-> "Ok", unpaired |-> unpaired(table), paired |-> paired(table)]
    /\ UNCHANGED <<table, inserted>>
    /\ UNCHANGED <<encodingVars, rankingVars>>

NextPairTable ==
    \/ \E i \in InsertArguments, j \in InsertArguments : Insert(i, j)
    \/ ListPositions

SpecPairTable == InitPairTable /\ [][NextPairTable]_vars

\* ----------------------------------------------------------------- ranking

\* the scores of a fragment, not ranked yet
InitRanking ==
    /\ scores \in ScoreVectors
    /\ corr = NotCalled
    /\ EncodingUnused
    /\ PairTableUnused

\* the ranking of the scores
Rank ==
    /\ corr.tag = "None"
    /\ corr' = [tag |-> "Ok", val |-> rank_lags(scores)]
    /\ UNCHANGED <<scores, encodingVars, pairTableVars>>

NextRanking == Rank

SpecRanking == InitRanking /\ [][NextRanking]_vars

\* ------------------------------------------------------ claims: encoding

\* every character of the string is one of A, C, G, U
AllNucleotides(s) == \A k \in 1..Len(s) : s[k] \in Nucleotides

\* the channel of a nucleotide: A=0, C=1, G=2, U=3
Channel(c) == CASE c = "A" -> 0 [] c = "C" -> 1 [] c = "G" -> 2 [] c = "U" -> 3

\* the weighted complement vector of a nucleotide:
\* A->[0,0,0,AU], C->[0,0,GC,0], G->[0,GC,0,GU], U->[AU,0,GU,0]
Complement(w, c) ==
    [ch \in 0..3 |->
        CASE c = "A" -> IF ch = 3 THEN w.AU ELSE 0
          [] c = "C" -> IF ch = 2 THEN w.GC ELSE 0
          [] c = "G" -> IF ch = 1 THEN w.GC ELSE IF ch = 3 THEN w.GU ELSE 0
          [] c = "U" -> IF ch = 0 THEN w.AU ELSE IF ch = 2 THEN w.GU ELSE 0]

\* the first character of the string, left to right, that is no nucleotide
FirstInvalid(s) ==
    s[CHOOSE k \in 1..Len(s) :
          /\ s[k] \notin Nucleotides
          /\ \A m \in 1..(k - 1) : s[m] \in Nucleotides]

\* C1: a string over {A,C,G,U} of any length encodes successfully; column i of
\* the forward matrix is 1 in the channel of seq[i] and 0 in the others; the
\* forward and the mirrored matrix both have len(seq) columns.
C1_ForwardOneHot ==
    (encoded.tag # "None" /\ AllNucleotides(sequence)) =>
        /\ encoded.tag = "Ok"
        /\ DOMAIN encoded.val.forward = 0..(Len(sequence) - 1)
        /\ DOMAIN encoded.val.mirrored = 0..(Len(sequence) - 1)
        /\ \A i \in 0..(Len(sequence) - 1) :
               /\ DOMAIN encoded.val.forward[i] = 0..3
               /\ \A ch \in 0..3 :
                      encoded.val.forward[i][ch]
                          = IF ch = Channel(sequence[i + 1]) THEN 1 ELSE 0

\* a string of three different nucleotides, G among them, was encoded
C1_Witness ==
    /\ encoded.tag = "Ok"
    /\ Cardinality({sequence[k] : k \in 1..Len(sequence)}) >= 3
    /\ \E k \in 1..Len(sequence) : sequence[k] = "G"

\* C2: a string with a character outside uppercase {A,C,G,U} (lowercase
\* included) encodes to the error InvalidNucleotide of the first such character,
\* left to right, and to nothing else: no matrices are returned; no other
\* string encodes to an error.
C2_InvalidNucleotideFirst ==
    encoded.tag # "None" =>
        /\ ~AllNucleotides(sequence) =>
               encoded = [tag |-> "Err",
                          err |-> [InvalidNucleotide |-> FirstInvalid(sequence)]]
        /\ AllNucleotides(sequence) => encoded.tag # "Err"

\* a string beginning with a nucleotide and holding two different characters
\* that are none, the lowercase one first, was rejected
C2_Witness ==
    /\ encoded.tag = "Err"
    /\ Len(sequence) >= 3
    /\ sequence[1] \in Nucleotides
    /\ sequence[2] = "a"
    /\ sequence[3] = "N"

SliceOrWrap(s, start, end) ==
    IF start < end
    THEN SubSeq(s, start + 1, end)
    ELSE SubSeq(s, start + 1, Len(s)) \o SubSeq(s, 1, end)

\* C4: for 0 <= start, end <= N, subsequence(start, end) of encode(S) is, column
\* for column, encode(S[start:end]) with no concatenation site when start < end,
\* and encode(S[start:] + S[:end]) with concatenation site start when
\* start >= end; start == end yields all N columns.
C4_SubsequenceCommutes ==
    (sub.tag # "None" /\ sub.start <= Len(sequence) /\ sub.end <= Len(sequence)) =>
        /\ sub.tag = "Ok"
        /\ LET direct == with_basepair_weights(
                             SliceOrWrap(sequence, sub.start, sub.end), weights)
           IN  /\ direct.tag = "Ok"
               /\ sub.val.forward = direct.val.forward
               /\ sub.val.mirrored = direct.val.mirrored
               /\ sub.val.concatenation_site
                      = IF sub.start < sub.end THEN None ELSE Some(sub.start)
        /\ (sub.start = 0 /\ sub.end = Len(sequence) /\ Len(sequence) > 0) =>
               sub.val = encoded.val
        /\ sub.start = sub.end => len(sub.val) = Len(sequence)

\* a wraparound subsequence with columns from both ends of a string that is
\* not one nucleotide repeated
C4_Witness ==
    /\ sub.tag = "Ok"
    /\ 0 < sub.end
    /\ sub.end < sub.start
    /\ sub.start < Len(sequence)
    /\ sequence[sub.start + 1] # sequence[sub.end]

\* ----------------------------------- claims: consecutive_pairs_at_lag

\* the weight of the base pair of two nucleotides: AU for A/U, GC for C/G,
\* GU for G/U, 0 for every other combination
PairWeight(w, x, y) ==
    IF {x, y} = {"A", "U"} THEN w.AU
    ELSE IF {x, y} = {"C", "G"} THEN w.GC
    ELSE IF {x, y} = {"G", "U"} THEN w.GU
    ELSE 0

\* the positions i of the first half of the window aligned at the lag, each
\* facing position lag - i: from max(0, lag-N+1), ceil(W/2) of them
WindowFirst(n, lag) == IF lag < n THEN 0 ELSE lag - n + 1
WindowWidth(n, lag) == IF lag < n THEN lag + 1 ELSE 2 * n - 1 - lag
HalfWindow(n, lag) ==
    WindowFirst(n, lag)..(WindowFirst(n, lag) + ((WindowWidth(n, lag) + 1) \div 2) - 1)

\* position i of the string pairs legally with the position facing it
PairsAt(s, w, lag, i) == PairWeight(w, s[i + 1], s[(lag - i) + 1]) > 0

\* the length of the longest run of consecutive pairing positions of the window
LongestRun(s, w, lag) ==
    LET half == HalfWindow(Len(s), lag)
        runs == {<<a, b>> \in half \X half :
                     a <= b /\ \A i \in a..b : PairsAt(s, w, lag, i)}
    IN  IF runs = {} THEN 0
        ELSE LET longest == CHOOSE r \in runs :
                                \A q \in runs : q[2] - q[1] <= r[2] - r[1]
             IN  longest[2] - longest[1] + 1

\* C7: for every lag, also one at or beyond the length of the fragment or with
\* a window outside 0..2N-2, consecutive_pairs_at_lag completes without panic
\* and returns a quadruple, with pair count 0 when no window exists.
C7_AnyLagCompletes ==
    pairs.tag # "None" =>
        /\ pairs.tag = "Ok"
        /\ pairs.val \in Nat \X Nat \X Nat \X Nat
        /\ pairs.positional_lag > 2 * Len(sequence) - 2 => pairs.val[1] = 0

\* C8: for every lag in 0..2N-2 the pair count returned is the length of the
\* longest run of consecutive legally pairing positions of the window aligned
\* at the lag, the positions returned are the first of that run on each strand
\* (they face each other: they add up to the lag); the pair count is positive
\* whenever the window has a pairing position.
C8_LongestRunReturned ==
    (pairs.tag = "Ok" /\ pairs.positional_lag <= 2 * Len(sequence) - 2) =>
        /\ pairs.val[1] = LongestRun(sequence, weights, pairs.positional_lag)
        /\ (\E i \in HalfWindow(Len(sequence), pairs.positional_lag) :
                PairsAt(sequence, weights, pairs.positional_lag, i))
               => /\ pairs.val[1] > 0
                  /\ pairs.val[2] + pairs.val[3] = pairs.positional_lag
                  /\ PairsAt(sequence, weights, pairs.positional_lag, pairs.val[2])

\* ----------------------------------------------------- claims: PairTable

\* the length the table was created with
TableLength == Cardinality(DOMAIN table) - 1

\* C5: from PairTable::new(L) and after any accepted inserts, slot 0 equals L
\* and every slot i in 1..L is 0 or a value j with 1 <= j <= L, j # i and
\* slot j = i; so every position is in at most one pair.
C5_PairTableWellFormed ==
    /\ DOMAIN table = 0..TableLength
    /\ table[0] = TableLength
    /\ \A i \in 1..TableLength :
           \/ table[i] = 0
           \/ /\ 1 <= table[i]
              /\ table[i] <= TableLength
              /\ table[i] # i
              /\ table[table[i]] = i
    /\ \A i \in 1..TableLength :
           Cardinality({k \in 1..TableLength : table[k] = i}) <= 1

\* two pairs were inserted, the second with the larger position first
C5_Witness ==
    /\ Cardinality({i \in 1..TableLength : table[i] # 0}) = 4
    /\ inserted.tag = "Ok"
    /\ inserted.i > inserted.j

\* the calls insert must reject: i == j, i or j outside [1, length], slot i or
\* slot j nonzero
MustReject(t, i, j) ==
    \/ i = j
    \/ i < 1 \/ i > t[0]
    \/ j < 1 \/ j > t[0]
    \/ t[i] # 0
    \/ t[j] # 0

\* C6: in every reachable state insert(i, j) is rejected exactly in the cases
\* it must reject, and a rejected call leaves every slot as it was.
C6_InsertRejects ==
    [][(inserted'.tag # "None" /\ <<table, inserted>>' # <<table, inserted>>) =>
           /\ (inserted'.tag = "Panic") <=> MustReject(table, inserted'.i, inserted'.j)
           /\ inserted'.tag = "Panic" => table' = table]_vars

\* a call with two different positions in range was rejected, one of them
\* being paired already
C6_Witness ==
    /\ inserted.tag = "Panic"
    /\ inserted.i # inserted.j
    /\ inserted.i \in 1..TableLength
    /\ inserted.j \in 1..TableLength
    /\ table[inserted.i] = 0
    /\ table[inserted.j] # 0

\* ---------------------------------------------------------- claims: fold

\* C9: fold on a string with a character outside {A,C,G,U} hands its caller
\* an error outcome, the InvalidNucleotide error of the offending character,
\* and builds and prints no trajectory.
C9_FoldReturnsInvalidInput ==
    (folded.tag # "None" /\ ~AllNucleotides(sequence)) =>
        /\ folded.tag = "Err"
        /\ folded.err = [InvalidNucleotide |-> FirstInvalid(sequence)]
        /\ folded.ffgraph = None
        /\ ~folded.printed

\* ------------------------------------------------------- claims: ranking

\* C10: the ranked order is descending by score and, among lags of equal
\* score, ascending by original lag index, for every score vector.
C10_RankingStable ==
    corr.tag = "Ok" =>
        /\ DOMAIN corr.val = DOMAIN scores
        /\ {corr.val[k][1] : k \in DOMAIN corr.val} = DOMAIN scores
        /\ \A k \in DOMAIN corr.val : corr.val[k][2] = scores[corr.val[k][1]]
        /\ \A k \in DOMAIN corr.val : \A m \in DOMAIN corr.val :
               k < m =>
                   \/ corr.val[k][2] > corr.val[m][2]
                   \/ /\ corr.val[k][2] = corr.val[m][2]
                      /\ corr.val[k][1] < corr.val[m][1]

\* --------------------------------------------------------- claims: split

\* a run of bp >= 1 pairs of the string, with first paired positions mi < mj:
\* the pairs are (mi - i, mj + i) for i in 0..bp-1, all of them positions of
\* the string, each a legal base pair
HelixOf(s, w, bp, mi, mj) ==
    /\ bp >= 1
    /\ mi < mj
    /\ mi - (bp - 1) >= 0
    /\ mj + (bp - 1) <= Len(s) - 1
    /\ \A i \in 0..(bp - 1) : PairWeight(w, s[(mi - i) + 1], s[(mj + i) + 1]) > 0

\* C11: at every split of a fragment of N columns around a run of bp >= 1
\* pairs with first paired positions mi < mj, the inner and the outer fragment
\* both have fewer than N columns (so the recursion over the fragments ends).
C11_SplitShrinksBoth ==
    (children.tag = "Ok"
         /\ HelixOf(sequence, weights, children.bp, children.mi, children.mj)) =>
        /\ len(children.inner) < Len(sequence)
        /\ len(children.outer) < Len(sequence)

\* the split around such a run yields its two fragments
C11_SplitCompletes ==
    (children.tag # "None"
         /\ HelixOf(sequence, weights, children.bp, children.mi, children.mj)) =>
        children.tag = "Ok"

\* ------------------------------------------- claims: unpaired and paired

\* C12: for a table of any length L >= 0, after any accepted inserts,
\* unpaired() yields exactly the positions i in 1..L whose slot is 0, each
\* once, so the number of positions it yields plus twice the number of pairs
\* paired() yields is L.
C12_UnpairedExact ==
    listed.tag = "Ok" =>
        /\ {listed.unpaired[k] : k \in 1..Len(listed.unpaired)}
               = {i \in 1..TableLength : table[i] = 0}
        /\ Len(listed.unpaired)
               = Cardinality({listed.unpaired[k] : k \in 1..Len(listed.unpaired)})
        /\ Len(listed.unpaired) + 2 * Len(listed.paired) = TableLength

\* C12 for the tables of length L >= 1
C12_UnpairedExactNonEmpty ==
    (listed.tag = "Ok" /\ TableLength >= 1) =>
        /\ {listed.unpaired[k] : k \in 1..Len(listed.unpaired)}
               = {i \in 1..TableLength : table[i] = 0}
        /\ Len(listed.unpaired)
               = Cardinality({listed.unpaired[k] : k \in 1..Len(listed.unpaired)})
        /\ Len(listed.unpaired) + 2 * Len(listed.paired) = TableLength

\* ------------------------------ claims: the scores of the half-window

\* C13: the accumulated score at each position k of the scanned half-window is
\* (accumulated score at k-1 + raw score at k) * raw score at k, the previous
\* accumulated score taken as 0 at the first position; so it is 0 wherever
\* the raw score is 0, and a run after a non-pairing position restarts from zero.
C13_AccumulatedFromZero ==
    pairs.tag = "Ok" =>
        LET raw == pairs.total_pairing_scores
            acc == pairs.accumulated
        IN  /\ DOMAIN acc = DOMAIN raw
            /\ \A k \in DOMAIN raw :
                   acc[k] = ((IF k = 0 THEN 0 ELSE acc[k - 1]) + raw[k]) * raw[k]
            /\ \A k \in DOMAIN raw : raw[k] = 0 => acc[k] = 0
            /\ \A k \in DOMAIN raw :
                   (k > 0 /\ raw[k - 1] = 0) => acc[k] = raw[k] * raw[k]

\* the part of C13 behind the first position: the recurrence from position 1
\* on, zero wherever the raw score is zero, the restart after a zero
C13_AccumulatedAfterFirst ==
    pairs.tag = "Ok" =>
        LET raw == pairs.total_pairing_scores
            acc == pairs.accumulated
        IN  /\ DOMAIN acc = DOMAIN raw
            /\ \A k \in DOMAIN raw :
                   k > 0 => acc[k] = (acc[k - 1] + raw[k]) * raw[k]
            /\ \A k \in DOMAIN raw : raw[k] = 0 => acc[k] = 0
            /\ \A k \in DOMAIN raw :
                   (k > 0 /\ raw[k - 1] = 0) => acc[k] = raw[k] * raw[k]

\* what the first position holds after the pass: its raw score
C13_FirstIsRaw ==
    (pairs.tag = "Ok" /\ 0 \in DOMAIN pairs.total_pairing_scores) =>
        pairs.accumulated[0] = pairs.total_pairing_scores[0]

\* C14: for a sequence of length N >= 1 and a lag in 0..2N-2, the raw score at
\* window index k, 0 <= k < ceil(W/2), is the base-pair weight of the
\* nucleotides at positions i = max(0, lag-N+1) + k and j = lag - i; every
\* scored pair of positions adds up to the lag, and a midpoint i = j scores 0.
C14_RawScoreIsPairWeight ==
    (pairs.tag = "Ok" /\ Len(sequence) >= 1
         /\ pairs.positional_lag <= 2 * Len(sequence) - 2) =>
        LET n == Len(sequence)
            lag == pairs.positional_lag
            raw == pairs.total_pairing_scores
        IN  /\ DOMAIN raw = 0..(((WindowWidth(n, lag) + 1) \div 2) - 1)
            /\ \A k \in DOMAIN raw :
                   LET i == WindowFirst(n, lag) + k
                       j == lag - i
                   IN  /\ i \in 0..(n - 1)
                       /\ j \in 0..(n - 1)
                       /\ i <= j
                       /\ raw[k] = PairWeight(weights, sequence[i + 1], sequence[j + 1])
                       /\ i = j => raw[k] = 0

\* a lag beyond the last column, weights that differ, a window of three
\* positions whose first pair is a legal base pair
C14_Witness ==
    /\ pairs.tag = "Ok"
    /\ weights = DefaultWeights
    /\ pairs.positional_lag >= Len(sequence)
    /\ pairs.positional_lag <= 2 * Len(sequence) - 2
    /\ DOMAIN pairs.total_pairing_scores = 0..1
    /\ pairs.total_pairing_scores[0] > 0

\* a lag within the sequence and a legal base pair at the second window index
C14_WitnessSecond ==
    /\ pairs.tag = "Ok"
    /\ pairs.positional_lag < Len(sequence)
    /\ 1 \in DOMAIN pairs.total_pairing_scores
    /\ pairs.total_pairing_scores[1] > 1

====
